---- MODULE Spec2Model ----
(***************************************************************************)
(* Model of the swibicollection backend: the deferred-export download      *)
(* token registry (routes/orders.js, stored in src/routes/auth.js lines    *)
(* 75-1752), the order-creation transactions, the order status updates,    *)
(* the export of orders in its two modes and three formats, and the color  *)
(* reconciliation of the product update (routes/products.js, lines 1753-). *)
(*                                                                         *)
(* Time is counted in minutes.  The datastore is modelled as committed     *)
(* tables plus, per request, the writes of its open transaction and the    *)
(* row locks that transaction holds (InnoDB: an UPDATE locks the row it    *)
(* targets until the transaction ends and reads the latest committed       *)
(* value).                                                                 *)
(***************************************************************************)
EXTENDS Integers, Sequences, FiniteSets, TLC

\* ------------------------------------------------------------------ bounds
MaxTime      == 6      \* the clock stops here
MaxExports   == 1      \* prepare-export requests
MaxDownloads == 2      \* download requests
MaxStatic    == 1      \* GET /temp/<file> requests
MaxItems     == 2      \* items of one order request
MaxQty       == 1      \* largest quantity of an item
MaxStock     == 1      \* stock of every product and color at the start
MaxUpdates   == 2      \* PUT /orders/:id/status requests
MaxStamp     == 2      \* clock values the status updates can observe
MaxDay       == 2      \* days on which stored orders were created
MaxColors    == 2      \* entries of the color list of a product update
MaxSockets   == 2      \* socket.io connections
MaxNotifs    == 2      \* calls of notifyAdmins
MaxBannerReqs == 2     \* banner create / update requests

\* ------------------------------------------------------- program constants
TTL    == 5            \* 5 * 60 * 1000 ms, in minutes

Exports   == 1..MaxExports
Downloads == 1..MaxDownloads
BogusToken == MaxExports + 1        \* a token the server never issued

VARIABLES
  \* --- download token store and temporary directory
  now,             \* Date.now(), minutes
  downloadTokens,  \* the Map: token -> [filename, expiresAt]
  tempFiles,       \* files present in <root>/temp
  pcE,             \* prepare-export request: "idle","render","done"
  eResp,           \* its response status (0: none yet)
  eToken,          \* the token it returned (0: none)
  pcD,             \* download request (numbered in order of arrival): "idle","streaming","unlinking","done","errored"
  dTok,            \* token the download request presented
  dFile,           \* file it streams (0: none)
  dResp,           \* its response status
  dLate,           \* history: it presented an issued token after its expiry instant
  issuedAt,        \* history: token -> clock value at issue
  served,          \* history: [file, route, token] of every file served
  nStatic,         \* GET /temp/<file> requests made so far
  \* --- order creation: requests
  req,             \* request body and route of each order request
  pc,              \* position of its handler ("absent": no such request)
  idx,             \* index of the item the loop is at
  orderId,         \* orderResult.insertId (0: none)
  resp,            \* response status (0: none sent)
  leased,          \* its connection is checked out of the pool
  txOpen,          \* a transaction is open on its connection
  txOrders,        \* order rows written by its open transaction
  txItems,         \* order_items rows written by its open transaction
  txStock,         \* products.stock values written by its open transaction
  txColorStock,    \* product_colors.stock values written by it
  faulted,         \* history: the step at which a statement failed ("": none)
  affected,        \* history: affectedRows of each stock UPDATE it ran
  \* --- datastore, committed state
  orders,          \* table orders
  orderItems,      \* table order_items
  stock,           \* products.stock
  colorStock,      \* product_colors.stock
  lockP,           \* row lock on products[p]: holder, 0 if free
  lockC,           \* row lock on product_colors[c]
  nextOrderId,     \* AUTO_INCREMENT of orders
  nextItemId,      \* AUTO_INCREMENT of order_items
  stock0,          \* history: products.stock at the start
  colorStock0,     \* history: product_colors.stock at the start
  broadcasts,      \* order ids passed to notifyAdmins
  \* --- status updates (requests numbered in order of arrival)
  sReq,            \* [id, status] of each PUT /orders/:id/status request
  pcS,             \* position of its handler: "idle","select","update","done"
  sRead,           \* order[0].completed_date as its SELECT returned it
  sDate,           \* completedDate, the value its UPDATE writes
  sResp,           \* its response status (0: none sent)
  overlap,         \* the requests may be in flight together
  \* --- export of orders (one request)
  xReq,            \* mode, format, filters and credentials of the request
  xPc,             \* position of its handler: "request","query","render","done"
  xResp,           \* its response status (0: none sent)
  xSel,            \* ids of the orders its query returned
  xDoc,            \* the rendered document: order id -> [label, total]
  xFaulted,        \* history: a datastore query of it failed
  \* --- product update (one request)
  pReq,            \* req.params.id and the parsed req.body.colors
  pPc,             \* position of handleProductSave
  pIdx,            \* index i of the color loop
  pResp,           \* its response status (0: none sent)
  pLeased,         \* its connection is checked out of the pool
  pTxOpen,         \* a transaction is open on its connection
  pTx,             \* product_colors as its open transaction sees it
  productColors,   \* table product_colors, committed rows
  nextColorId,     \* AUTO_INCREMENT of product_colors
  productColors0,  \* history: product_colors at the start
  \* --- admin sockets
  sockState,       \* each socket: "new", "connected", "closed"
  adminSockets,    \* the Set of socket ids
  sentValid,       \* history: the socket has sent a valid admin token
  inbox,           \* the notifications emitted to each socket
  nNotif,          \* calls of notifyAdmins so far
  \* --- banners
  bReq,            \* each banner request: method, req.params.id, req.file
  bPc,             \* position of its handler
  bResp,           \* its response status (0: none sent)
  bFile,           \* the file multer stored for it exists in the temp directory
  bFaulted,        \* the awaited call of it that rejected ("" if none)
  banners,         \* table banners
  nextBannerId     \* AUTO_INCREMENT of banners

dlVars == <<now, downloadTokens, tempFiles, pcE, eResp, eToken, pcD, dTok,
            dFile, dResp, dLate, issuedAt, served, nStatic>>

reqVars == <<req, pc, idx, orderId, resp, leased, txOpen, txOrders, txItems,
             txStock, txColorStock, faulted, affected>>
dbVars  == <<orders, orderItems, stock, colorStock, lockP, lockC, nextOrderId,
             nextItemId, stock0, colorStock0, broadcasts>>
ordVars == <<reqVars, dbVars>>

statusVars == <<sReq, pcS, sRead, sDate, sResp, overlap>>
exportVars == <<xReq, xPc, xResp, xSel, xDoc, xFaulted>>
productVars == <<pReq, pPc, pIdx, pResp, pLeased, pTxOpen, pTx, productColors,
                 nextColorId, productColors0>>
socketVars == <<sockState, adminSockets, sentValid, inbox, nNotif>>
bannerVars == <<bReq, bPc, bResp, bFile, bFaulted, banners, nextBannerId>>
auxVars == <<statusVars, exportVars, productVars, socketVars, bannerVars>>
notStatus == <<exportVars, productVars, socketVars, bannerVars>>
notExport == <<statusVars, productVars, socketVars, bannerVars>>
notProduct == <<dlVars, ordVars, statusVars, exportVars, socketVars,
                bannerVars>>
notSocket == <<dlVars, ordVars, statusVars, exportVars, productVars,
               bannerVars>>
notBanner == <<dlVars, ordVars, statusVars, exportVars, productVars,
               socketVars>>

vars == <<dlVars, ordVars, auxVars>>

\* ------------------------------------------------------------ Map helpers
MapSet(m, k, v) == [x \in DOMAIN m \cup {k} |-> IF x = k THEN v ELSE m[x]]
MapDelete(m, k) == [x \in DOMAIN m \ {k} |-> m[x]]

\* ---------------------------------------------------- download token store
createDownloadToken(tokens, token, filename, t) ==
  MapSet(tokens, token, [filename |-> filename, expiresAt |-> t + TTL])

\* mutant: a valid token is not deleted after use
verifyDownloadToken_keep(tokens, token, t) ==
  IF token \notin DOMAIN tokens
  THEN [ok |-> FALSE, filename |-> 0, tokens |-> tokens]
  ELSE IF t > tokens[token].expiresAt
       THEN [ok |-> FALSE, filename |-> 0, tokens |-> MapDelete(tokens, token)]
       ELSE [ok |-> TRUE, filename |-> tokens[token].filename, tokens |-> tokens]

\* mutant: the expiry test is missing
verifyDownloadToken_noexpiry(tokens, token, t) ==
  IF token \notin DOMAIN tokens
  THEN [ok |-> FALSE, filename |-> 0, tokens |-> tokens]
  ELSE [ok |-> TRUE, filename |-> tokens[token].filename,
        tokens |-> MapDelete(tokens, token)]

\* result: ok (fileInfo is not null), the filename, and the Map afterwards
verifyDownloadToken(tokens, token, t) ==
  IF token \notin DOMAIN tokens
  THEN [ok |-> FALSE, filename |-> 0, tokens |-> tokens]
  ELSE IF t > tokens[token].expiresAt
       THEN [ok |-> FALSE, filename |-> 0, tokens |-> MapDelete(tokens, token)]
       ELSE [ok |-> TRUE, filename |-> tokens[token].filename,
             tokens |-> MapDelete(tokens, token)]

InitDownload ==
  /\ now = 0
  /\ downloadTokens = << >>
  /\ tempFiles = {}
  /\ pcE = [e \in Exports |-> "idle"]
  /\ eResp = [e \in Exports |-> 0]
  /\ eToken = [e \in Exports |-> 0]
  /\ pcD = [d \in Downloads |-> "idle"]
  /\ dTok = [d \in Downloads |-> 0]
  /\ dFile = [d \in Downloads |-> 0]
  /\ dResp = [d \in Downloads |-> 0]
  /\ dLate = [d \in Downloads |-> FALSE]
  /\ issuedAt = << >>
  /\ served = {}
  /\ nStatic = 0

Tick ==
  /\ now < MaxTime
  /\ now' = now + 1
  /\ UNCHANGED <<downloadTokens, tempFiles, pcE, eResp, eToken, pcD, dTok,
                 dFile, dResp, dLate, issuedAt, served, nStatic>>
  /\ UNCHANGED <<ordVars, auxVars>>

\* POST /orders/prepare-export, up to the end of the queries
PrepareExportQuery(e) ==
  /\ pcE[e] = "idle"
  /\ \A x \in Exports : x < e => pcE[x] # "idle"
  /\ pcE' = [pcE EXCEPT ![e] = "render"]
  /\ UNCHANGED <<now, downloadTokens, tempFiles, eResp, eToken, pcD, dTok,
                 dFile, dResp, dLate, issuedAt, served, nStatic>>
  /\ UNCHANGED <<ordVars, auxVars>>

\* await generateExcelFile / generatePdfFile / generateWordFile: the promise
\* resolves when the file is completely written
PrepareExportRender(e) ==
  /\ pcE[e] = "render"
  /\ tempFiles' = tempFiles \cup {e}
  /\ pcE' = [pcE EXCEPT ![e] = "written"]
  /\ UNCHANGED <<now, downloadTokens, eResp, eToken, pcD, dTok, dFile, dResp,
                 dLate, issuedAt, served, nStatic>>
  /\ UNCHANGED <<ordVars, auxVars>>

\* mutant: the token is registered while the file is still being written
PrepareExportToken_early(e) ==
  /\ pcE[e] = "render"
  /\ LET token == Cardinality(DOMAIN issuedAt) + 1
     IN /\ downloadTokens' = createDownloadToken(downloadTokens, token, e, now)
        /\ issuedAt' = MapSet(issuedAt, token, now)
        /\ eToken' = [eToken EXCEPT ![e] = token]
  /\ eResp' = [eResp EXCEPT ![e] = 200]
  /\ pcE' = [pcE EXCEPT ![e] = "done"]
  /\ UNCHANGED <<now, tempFiles, pcD, dTok, dFile, dResp, dLate, served,
                 nStatic>>
  /\ UNCHANGED <<ordVars, auxVars>>

\* the token is registered and the download URL returned
PrepareExportToken(e) ==
  /\ pcE[e] = "written"
  /\ LET token == Cardinality(DOMAIN issuedAt) + 1
     IN /\ downloadTokens' = createDownloadToken(downloadTokens, token, e, now)
        /\ issuedAt' = MapSet(issuedAt, token, now)
        /\ eToken' = [eToken EXCEPT ![e] = token]
  /\ eResp' = [eResp EXCEPT ![e] = 200]
  /\ pcE' = [pcE EXCEPT ![e] = "done"]
  /\ UNCHANGED <<now, tempFiles, pcD, dTok, dFile, dResp, dLate, served,
                 nStatic>>
  /\ UNCHANGED <<ordVars, auxVars>>

\* a query, the rendering or the file write throws: 500, no token
PrepareExportFail(e) ==
  /\ pcE[e] \in {"idle", "render"}
  /\ \A x \in Exports : x < e => pcE[x] # "idle"
  /\ eResp' = [eResp EXCEPT ![e] = 500]
  /\ pcE' = [pcE EXCEPT ![e] = "done"]
  /\ UNCHANGED <<now, downloadTokens, tempFiles, eToken, pcD, dTok, dFile,
                 dResp, dLate, issuedAt, served, nStatic>>
  /\ UNCHANGED <<ordVars, auxVars>>

\* GET /orders/download/:token, the synchronous part of the handler
Download(d, token) ==
  /\ pcD[d] = "idle"
  /\ \A x \in Downloads : x < d => pcD[x] # "idle"
  /\ LET v == verifyDownloadToken(downloadTokens, token, now)
     IN /\ downloadTokens' = v.tokens
        /\ dTok' = [dTok EXCEPT ![d] = token]
        /\ dLate' = [dLate EXCEPT ![d] =
                       token \in DOMAIN issuedAt /\ now > issuedAt[token] + TTL]
        /\ IF ~v.ok
           THEN /\ dResp' = [dResp EXCEPT ![d] = 401]
                /\ pcD' = [pcD EXCEPT ![d] = "done"]
                /\ UNCHANGED <<dFile, served>>
           ELSE IF v.filename \notin tempFiles
           THEN /\ dResp' = [dResp EXCEPT ![d] = 404]
                /\ pcD' = [pcD EXCEPT ![d] = "done"]
                /\ dFile' = [dFile EXCEPT ![d] = v.filename]
                /\ UNCHANGED served
           ELSE /\ dResp' = [dResp EXCEPT ![d] = 200]
                /\ pcD' = [pcD EXCEPT ![d] = "streaming"]
                /\ dFile' = [dFile EXCEPT ![d] = v.filename]
                /\ served' = served \cup
                     {[file |-> v.filename, route |-> "download", token |-> token]}
  /\ UNCHANGED <<now, tempFiles, pcE, eResp, eToken, issuedAt, nStatic>>
  /\ UNCHANGED <<ordVars, auxVars>>

\* the read stream emits 'end': fs.unlink is started
StreamEnd(d) ==
  /\ pcD[d] = "streaming"
  /\ pcD' = [pcD EXCEPT ![d] = "unlinking"]
  /\ UNCHANGED <<now, downloadTokens, tempFiles, pcE, eResp, eToken, dTok,
                 dFile, dResp, dLate, issuedAt, served, nStatic>>
  /\ UNCHANGED <<ordVars, auxVars>>

\* fs.unlink completes
Unlink(d) ==
  /\ pcD[d] = "unlinking"
  /\ tempFiles' = tempFiles \ {dFile[d]}
  /\ pcD' = [pcD EXCEPT ![d] = "done"]
  /\ UNCHANGED <<now, downloadTokens, pcE, eResp, eToken, dTok, dFile, dResp,
                 dLate, issuedAt, served, nStatic>>
  /\ UNCHANGED <<ordVars, auxVars>>

\* the read stream emits 'error' (or the client goes away): there is no
\* 'error' listener, 'end' is never emitted
StreamError(d) ==
  /\ pcD[d] = "streaming"
  /\ pcD' = [pcD EXCEPT ![d] = "errored"]
  /\ UNCHANGED <<now, downloadTokens, tempFiles, pcE, eResp, eToken, dTok,
                 dFile, dResp, dLate, issuedAt, served, nStatic>>
  /\ UNCHANGED <<ordVars, auxVars>>

\* GET /temp/<filename>: express.static over the same directory
ServeTemp(f) ==
  /\ nStatic < MaxStatic
  /\ f \in tempFiles
  /\ nStatic' = nStatic + 1
  /\ served' = served \cup {[file |-> f, route |-> "static", token |-> 0]}
  /\ UNCHANGED <<now, downloadTokens, tempFiles, pcE, eResp, eToken, pcD,
                 dTok, dFile, dResp, dLate, issuedAt>>
  /\ UNCHANGED <<ordVars, auxVars>>

NextDownload ==
  \/ Tick
  \/ \E e \in Exports : PrepareExportQuery(e)
  \/ \E e \in Exports : PrepareExportRender(e)
  \/ \E e \in Exports : PrepareExportToken(e)
  \/ \E e \in Exports : PrepareExportFail(e)
  \/ \E d \in Downloads, t \in DOMAIN issuedAt \cup {BogusToken} : Download(d, t)
  \/ \E d \in Downloads : StreamEnd(d)
  \/ \E d \in Downloads : Unlink(d)
  \/ \E d \in Downloads : StreamError(d)
  \/ \E f \in Exports : ServeTemp(f)

\* ------------------------------------------------------- order creation
Reqs     == 1..2
Products == {1, 2}
Colors   == {1}
colorProduct == [c \in Colors |-> 1]      \* product_colors.product_id

\* item.quantity is not validated: zero and negative values pass
Quantities == -1..MaxQty
Prices     == {5}

Item == [productId : Products, colorId : {0} \cup Colors,
         quantity : Quantities, price : Prices]

RECURSIVE SeqsUpTo(_, _)
SeqsUpTo(S, n) ==
  IF n = 0 THEN {<< >>}
  ELSE LET shorter == SeqsUpTo(S, n - 1)
       IN shorter \cup {Append(q, x) : q \in {y \in shorter : Len(y) = n - 1}, x \in S}

\* bodies of POST /orders and POST /orders/whatsapp ("" is an absent field);
\* POST /orders/whatsapp never reads order_source
Body == {b \in [route : {"orders", "whatsapp"}, order_source : {"", "whatsapp"},
                 name : {"", "Alice"}, phone : {"", "0600"},
                 address : {"", "Rabat"}, notes : {""},
                 items : SeqsUpTo(Item, MaxItems)] :
           b.route = "whatsapp" => b.order_source = ""}

\* two web orders for product 1, the case of concurrent buyers
ConcItem == {it \in Item : it.productId = 1 /\ it.colorId = 0 /\ it.quantity >= 1}
ConcBody == {b \in [route : {"orders"}, order_source : {""}, name : {"Alice"},
                    phone : {"0600"}, address : {"Rabat"}, notes : {""},
                    items : SeqsUpTo(ConcItem, MaxItems)] : Len(b.items) >= 1}

NoBody == [route |-> "orders", order_source |-> "", name |-> "", phone |-> "",
           address |-> "", notes |-> "", items |-> << >>]

isWhatsAppOrder(body) == body.order_source = "whatsapp"

\* mutant: every order is stored as a WhatsApp order
OrderValues_wrongsource(body) ==
  [name |-> body.name, phone |-> body.phone, address |-> body.address,
   notes |-> IF body.notes = "" THEN "null" ELSE body.notes,
   status |-> "pending", order_source |-> "whatsapp", completed_date |-> 0]

\* the values of INSERT INTO orders in POST /orders
OrderValues(body) ==
  IF isWhatsAppOrder(body)
  THEN [name |-> "WhatsApp Order", phone |-> "WhatsApp",
        address |-> "To be provided via WhatsApp",
        notes |-> "Customer will provide details via WhatsApp",
        status |-> "pending", order_source |-> "whatsapp", completed_date |-> 0]
  ELSE [name |-> body.name, phone |-> body.phone, address |-> body.address,
        notes |-> IF body.notes = "" THEN "null" ELSE body.notes,
        status |-> "pending", order_source |-> "website", completed_date |-> 0]

\* x || placeholder
OrElse(x, placeholder) == IF x = "" THEN placeholder ELSE x

\* the values of INSERT INTO orders in POST /orders/whatsapp
WhatsAppOrderValues(body) ==
  [name |-> OrElse(body.name, "WhatsApp Order"),
   phone |-> OrElse(body.phone, "WhatsApp"),
   address |-> OrElse(body.address, "To be provided via WhatsApp"),
   notes |-> OrElse(body.notes, "Customer will provide details via WhatsApp"),
   status |-> "pending", order_source |-> "whatsapp", completed_date |-> 0]

\* mutant: the customer-information check does not look at the address
Rejected_noaddress(body) ==
  \/ Len(body.items) = 0
  \/ /\ body.route = "orders"
     /\ ~isWhatsAppOrder(body)
     /\ (body.name = "" \/ body.phone = "")

\* the 400 answers of the two routes: TRUE when the body is rejected
Rejected(body) ==
  \/ Len(body.items) = 0
  \/ /\ body.route = "orders"
     /\ ~isWhatsAppOrder(body)
     /\ (body.name = "" \/ body.phone = "" \/ body.address = "")

\* mutant: stock is updated for every order of POST /orders
DecrementsStock_always(body) == body.route = "orders"

\* the item loop runs a stock UPDATE: POST /orders for a regular order only
DecrementsStock(body) == body.route = "orders" /\ ~isWhatsAppOrder(body)

\* mutant: the UPDATE without its stock >= ? condition
UpdatedStock_unguarded(S, q) == S - q

\* SET stock = stock - q ... AND stock >= q, on a row the WHERE selects
UpdatedStock(S, q) == IF S >= q THEN S - q ELSE S

\* WHERE id = colorId AND product_id = productId selects the color row
ColorRowSelected(item) ==
  item.colorId \in Colors /\ colorProduct[item.colorId] = item.productId

\* what a statement of request r reads: its own writes, else committed rows
ViewP(tx, st, r, p) == IF p \in DOMAIN tx[r] THEN tx[r][p] ELSE st[p]

\* mutant: the UPDATE does not wait for the row (a read-then-write race)
RowAvailable_nolock(lock, x, r) == TRUE

\* the row is not locked by another transaction
RowAvailable(lock, x, r) == lock[x] \in {0, r}

Released(lock, r) == [x \in DOMAIN lock |-> IF lock[x] = r THEN 0 ELSE lock[x]]

\* no order request; the tables orders and order_items hold `rows`, `items`
OrdersIdleWith(rows, items) ==
  /\ req = [r \in Reqs |-> NoBody]
  /\ pc = [r \in Reqs |-> "absent"]
  /\ idx = [r \in Reqs |-> 0]
  /\ orderId = [r \in Reqs |-> 0]
  /\ resp = [r \in Reqs |-> 0]
  /\ leased = [r \in Reqs |-> FALSE]
  /\ txOpen = [r \in Reqs |-> FALSE]
  /\ txOrders = [r \in Reqs |-> {}]
  /\ txItems = [r \in Reqs |-> {}]
  /\ txStock = [r \in Reqs |-> << >>]
  /\ txColorStock = [r \in Reqs |-> << >>]
  /\ faulted = [r \in Reqs |-> ""]
  /\ affected = [r \in Reqs |-> << >>]
  /\ orders = rows
  /\ orderItems = items
  /\ stock = [p \in Products |-> 1]
  /\ colorStock = [c \in Colors |-> 1]
  /\ lockP = [p \in Products |-> 0]
  /\ lockC = [c \in Colors |-> 0]
  /\ nextOrderId = Cardinality(rows) + 1
  /\ nextItemId = Cardinality(items) + 1
  /\ stock0 = stock
  /\ colorStock0 = colorStock
  /\ broadcasts = {}

OrdersIdle == OrdersIdleWith({}, {})

\* the requests in `present` have obtained their connection (getConnection)
InitOrdersWith(present, bodies) ==
  /\ \E f \in [present -> bodies] :
       req = [r \in Reqs |-> IF r \in present THEN f[r] ELSE NoBody]
  /\ pc = [r \in Reqs |-> IF r \in present THEN "begin" ELSE "absent"]
  /\ idx = [r \in Reqs |-> 0]
  /\ orderId = [r \in Reqs |-> 0]
  /\ resp = [r \in Reqs |-> 0]
  /\ leased = [r \in Reqs |-> r \in present]
  /\ txOpen = [r \in Reqs |-> FALSE]
  /\ txOrders = [r \in Reqs |-> {}]
  /\ txItems = [r \in Reqs |-> {}]
  /\ txStock = [r \in Reqs |-> << >>]
  /\ txColorStock = [r \in Reqs |-> << >>]
  /\ faulted = [r \in Reqs |-> ""]
  /\ affected = [r \in Reqs |-> << >>]
  /\ orders = {}
  /\ orderItems = {}
  /\ stock = [p \in Products |-> MaxStock]
  /\ colorStock = [c \in Colors |-> MaxStock]
  /\ lockP = [p \in Products |-> 0]
  /\ lockC = [c \in Colors |-> 0]
  /\ nextOrderId = 1
  /\ nextItemId = 1
  /\ stock0 = stock
  /\ colorStock0 = colorStock
  /\ broadcasts = {}

\* await connection.beginTransaction(), then the validation of the body
BeginTransaction(r) ==
  /\ pc[r] = "begin"
  /\ txOpen' = [txOpen EXCEPT ![r] = TRUE]
  /\ IF Rejected(req[r])
     THEN /\ resp' = [resp EXCEPT ![r] = 400]
          /\ leased' = [leased EXCEPT ![r] = FALSE]
          /\ pc' = [pc EXCEPT ![r] = "done"]
     ELSE /\ pc' = [pc EXCEPT ![r] = "insertOrder"]
          /\ UNCHANGED <<resp, leased>>
  /\ UNCHANGED <<req, idx, orderId, txOrders, txItems, txStock, txColorStock,
                 faulted, affected, dbVars, dlVars, auxVars>>

\* await connection.query('INSERT INTO orders ...')
InsertOrder(r) ==
  /\ pc[r] = "insertOrder"
  /\ LET values == IF req[r].route = "orders" THEN OrderValues(req[r])
                   ELSE WhatsAppOrderValues(req[r])
         row == [id |-> nextOrderId] @@ values
     IN txOrders' = [txOrders EXCEPT ![r] = @ \cup {row}]
  /\ orderId' = [orderId EXCEPT ![r] = nextOrderId]
  /\ nextOrderId' = nextOrderId + 1
  /\ idx' = [idx EXCEPT ![r] = 1]
  /\ pc' = [pc EXCEPT ![r] = "insertItem"]
  /\ UNCHANGED <<req, resp, leased, txOpen, txItems, txStock, txColorStock,
                 faulted, affected, orders, orderItems, stock, colorStock,
                 lockP, lockC, nextItemId, stock0, colorStock0, broadcasts,
                 dlVars, auxVars>>

\* position after item idx[r] has been dealt with
AfterItem(r) ==
  IF idx[r] < Len(req[r].items)
  THEN /\ idx' = [idx EXCEPT ![r] = @ + 1]
       /\ pc' = [pc EXCEPT ![r] = "insertItem"]
  ELSE /\ idx' = idx
       /\ pc' = [pc EXCEPT ![r] = "commit"]

\* await connection.query('INSERT INTO order_items ...')
InsertItem(r) ==
  /\ pc[r] = "insertItem"
  /\ LET item == req[r].items[idx[r]]
         row == [id |-> nextItemId, order_id |-> orderId[r],
                 product_id |-> item.productId, quantity |-> item.quantity,
                 price |-> item.price, color_id |-> item.colorId]
     IN txItems' = [txItems EXCEPT ![r] = @ \cup {row}]
  /\ nextItemId' = nextItemId + 1
  /\ IF DecrementsStock(req[r])
     THEN /\ pc' = [pc EXCEPT ![r] = "updateStock"]
          /\ idx' = idx
     ELSE AfterItem(r)
  /\ UNCHANGED <<req, orderId, resp, leased, txOpen, txOrders, txStock,
                 txColorStock, faulted, affected, orders, orderItems, stock,
                 colorStock, lockP, lockC, nextOrderId, stock0, colorStock0,
                 broadcasts, dlVars, auxVars>>

\* await connection.query('UPDATE product_colors ...' or 'UPDATE products ...')
\* the statement waits while another transaction holds the row
UpdateStock(r) ==
  /\ pc[r] = "updateStock"
  /\ LET item == req[r].items[idx[r]]
         q == item.quantity
     IN IF item.colorId # 0
        THEN LET c == item.colorId
                 S == ViewP(txColorStock, colorStock, r, c)
                 hit == ColorRowSelected(item) /\ UpdatedStock(S, q) # S
             IN /\ RowAvailable(lockC, c, r)
                /\ lockC' = [lockC EXCEPT ![c] = r]
                /\ txColorStock' = [txColorStock EXCEPT ![r] =
                     IF ColorRowSelected(item)
                     THEN MapSet(@, c, UpdatedStock(S, q)) ELSE @]
                /\ affected' = [affected EXCEPT ![r] =
                     Append(@, IF hit THEN 1 ELSE 0)]
                /\ UNCHANGED <<lockP, txStock>>
        ELSE LET p == item.productId
                 S == ViewP(txStock, stock, r, p)
             IN /\ RowAvailable(lockP, p, r)
                /\ lockP' = [lockP EXCEPT ![p] = r]
                /\ txStock' = [txStock EXCEPT ![r] = MapSet(@, p, UpdatedStock(S, q))]
                /\ affected' = [affected EXCEPT ![r] =
                     Append(@, IF UpdatedStock(S, q) # S THEN 1 ELSE 0)]
                /\ UNCHANGED <<lockC, txColorStock>>
  /\ AfterItem(r)
  /\ UNCHANGED <<req, orderId, resp, leased, txOpen, txOrders, txItems,
                 faulted, orders, orderItems, stock, colorStock, nextOrderId,
                 nextItemId, stock0, colorStock0, broadcasts, dlVars, auxVars>>

\* await connection.commit()
Commit(r) ==
  /\ pc[r] = "commit"
  /\ orders' = orders \cup txOrders[r]
  /\ orderItems' = orderItems \cup txItems[r]
  /\ stock' = [p \in Products |-> ViewP(txStock, stock, r, p)]
  /\ colorStock' = [c \in Colors |-> ViewP(txColorStock, colorStock, r, c)]
  /\ txOrders' = [txOrders EXCEPT ![r] = {}]
  /\ txItems' = [txItems EXCEPT ![r] = {}]
  /\ txStock' = [txStock EXCEPT ![r] = << >>]
  /\ txColorStock' = [txColorStock EXCEPT ![r] = << >>]
  /\ lockP' = Released(lockP, r)
  /\ lockC' = Released(lockC, r)
  /\ txOpen' = [txOpen EXCEPT ![r] = FALSE]
  /\ pc' = [pc EXCEPT ![r] = "select"]
  /\ UNCHANGED <<req, idx, orderId, resp, leased, faulted, affected,
                 nextOrderId, nextItemId, stock0, colorStock0, broadcasts,
                 dlVars, auxVars>>

\* mutant: the success path does not release the connection
SelectAndRespond_leak(r) ==
  /\ pc[r] = "select"
  /\ broadcasts' = IF \E o \in orders : o.id = orderId[r]
                   THEN broadcasts \cup {orderId[r]} ELSE broadcasts
  /\ resp' = [resp EXCEPT ![r] = 201]
  /\ leased' = leased
  /\ pc' = [pc EXCEPT ![r] = "done"]
  /\ UNCHANGED <<req, idx, orderId, txOpen, txOrders, txItems, txStock,
                 txColorStock, faulted, affected, orders, orderItems, stock,
                 colorStock, lockP, lockC, nextOrderId, nextItemId, stock0,
                 colorStock0, dlVars, auxVars>>

\* await db.query('SELECT * FROM orders WHERE id = ?'), notifyAdmins, 201
SelectAndRespond(r) ==
  /\ pc[r] = "select"
  /\ broadcasts' = IF \E o \in orders : o.id = orderId[r]
                   THEN broadcasts \cup {orderId[r]} ELSE broadcasts
  /\ resp' = [resp EXCEPT ![r] = 201]
  /\ leased' = [leased EXCEPT ![r] = FALSE]
  /\ pc' = [pc EXCEPT ![r] = "done"]
  /\ UNCHANGED <<req, idx, orderId, txOpen, txOrders, txItems, txStock,
                 txColorStock, faulted, affected, orders, orderItems, stock,
                 colorStock, lockP, lockC, nextOrderId, nextItemId, stock0,
                 colorStock0, dlVars, auxVars>>

\* the SELECT has returned the order and notifyAdmins throws, before or
\* after it has emitted to some socket: the call sits inside the handler's
\* try block, so control goes to the catch block
NotifyThrows(r) ==
  /\ pc[r] = "select"
  /\ \E o \in orders : o.id = orderId[r]
  /\ \E emitted \in BOOLEAN :
       broadcasts' = IF emitted THEN broadcasts \cup {orderId[r]} ELSE broadcasts
  /\ faulted' = [faulted EXCEPT ![r] = "notify"]
  /\ pc' = [pc EXCEPT ![r] = "rollback"]
  /\ UNCHANGED <<req, idx, orderId, resp, leased, txOpen, txOrders, txItems,
                 txStock, txColorStock, affected, orders, orderItems, stock,
                 colorStock, lockP, lockC, nextOrderId, nextItemId, stock0,
                 colorStock0, dlVars, auxVars>>

\* an awaited datastore call rejects (constraint, deadlock, lock wait
\* timeout, lost connection): control goes to the catch block
Fault(r) ==
  /\ pc[r] \in {"begin", "insertOrder", "insertItem", "updateStock", "commit",
                "select"}
  /\ faulted' = [faulted EXCEPT ![r] = pc[r]]
  /\ pc' = [pc EXCEPT ![r] = "rollback"]
  /\ UNCHANGED <<req, idx, orderId, resp, leased, txOpen, txOrders, txItems,
                 txStock, txColorStock, affected, dbVars, dlVars, auxVars>>

\* mutant: the catch block announces the order it rolls back
Rollback_notify(r) ==
  /\ pc[r] = "rollback"
  /\ txOrders' = [txOrders EXCEPT ![r] = {}]
  /\ txItems' = [txItems EXCEPT ![r] = {}]
  /\ txStock' = [txStock EXCEPT ![r] = << >>]
  /\ txColorStock' = [txColorStock EXCEPT ![r] = << >>]
  /\ lockP' = Released(lockP, r)
  /\ lockC' = Released(lockC, r)
  /\ txOpen' = [txOpen EXCEPT ![r] = FALSE]
  /\ resp' = [resp EXCEPT ![r] = 500]
  /\ leased' = [leased EXCEPT ![r] = FALSE]
  /\ pc' = [pc EXCEPT ![r] = "done"]
  /\ broadcasts' = broadcasts \cup {orderId[r]}
  /\ UNCHANGED <<req, idx, orderId, faulted, affected, orders, orderItems,
                 stock, colorStock, nextOrderId, nextItemId, stock0,
                 colorStock0, dlVars, auxVars>>

\* catch: await connection.rollback() succeeds, 500, finally release
Rollback(r) ==
  /\ pc[r] = "rollback"
  /\ txOrders' = [txOrders EXCEPT ![r] = {}]
  /\ txItems' = [txItems EXCEPT ![r] = {}]
  /\ txStock' = [txStock EXCEPT ![r] = << >>]
  /\ txColorStock' = [txColorStock EXCEPT ![r] = << >>]
  /\ lockP' = Released(lockP, r)
  /\ lockC' = Released(lockC, r)
  /\ txOpen' = [txOpen EXCEPT ![r] = FALSE]
  /\ resp' = [resp EXCEPT ![r] = 500]
  /\ leased' = [leased EXCEPT ![r] = FALSE]
  /\ pc' = [pc EXCEPT ![r] = "done"]
  /\ UNCHANGED <<req, idx, orderId, faulted, affected, orders, orderItems,
                 stock, colorStock, nextOrderId, nextItemId, stock0,
                 colorStock0, broadcasts, dlVars, auxVars>>

\* catch: await connection.rollback() rejects: the handler throws out of the
\* catch block, finally releases the connection, no response is sent.  The
\* server either has dropped the transaction with the connection or still
\* holds it open.
RollbackFail(r) ==
  /\ pc[r] = "rollback"
  /\ \E dropped \in BOOLEAN :
       IF dropped
       THEN /\ txOrders' = [txOrders EXCEPT ![r] = {}]
            /\ txItems' = [txItems EXCEPT ![r] = {}]
            /\ txStock' = [txStock EXCEPT ![r] = << >>]
            /\ txColorStock' = [txColorStock EXCEPT ![r] = << >>]
            /\ lockP' = Released(lockP, r)
            /\ lockC' = Released(lockC, r)
            /\ txOpen' = [txOpen EXCEPT ![r] = FALSE]
       ELSE UNCHANGED <<txOrders, txItems, txStock, txColorStock, lockP,
                        lockC, txOpen>>
  /\ leased' = [leased EXCEPT ![r] = FALSE]
  /\ pc' = [pc EXCEPT ![r] = "done"]
  /\ UNCHANGED <<req, idx, orderId, resp, faulted, affected, orders,
                 orderItems, stock, colorStock, nextOrderId, nextItemId,
                 stock0, colorStock0, broadcasts, dlVars, auxVars>>

NextOrders ==
  \/ \E r \in Reqs : BeginTransaction(r)
  \/ \E r \in Reqs : InsertOrder(r)
  \/ \E r \in Reqs : InsertItem(r)
  \/ \E r \in Reqs : UpdateStock(r)
  \/ \E r \in Reqs : Commit(r)
  \/ \E r \in Reqs : SelectAndRespond(r)
  \/ \E r \in Reqs : NotifyThrows(r)
  \/ \E r \in Reqs : Fault(r)
  \/ \E r \in Reqs : Rollback(r)
  \/ \E r \in Reqs : RollbackFail(r)

\* --------------------------------------------------------- status updates
Updates      == 1..MaxUpdates
StoredIds    == {1, 2}               \* orders in the table at the start
RequestedIds == {1, 3}               \* req.params.id: order 3 does not exist
Statuses     == {"pending", "confirmed", "delivered", "cancelled", "shipped"}
NoUpdate     == [id |-> 0, status |-> ""]

\* new Date().toISOString().slice(0, 19).replace('T', ' ') at clock value t;
\* 0 stands for a null completed_date
Stamp(t) == t + 1

\* mutant: 'shipped' is accepted as well
validStatuses_open == {"pending", "confirmed", "delivered", "cancelled", "shipped"}

\* ['pending', 'confirmed', 'delivered', 'cancelled'].includes(status)
validStatuses == {"pending", "confirmed", "delivered", "cancelled"}

\* mutant: every update to 'delivered' takes a new timestamp
completedDate_always(status, read, t) ==
  IF status = "delivered" THEN Stamp(t) ELSE read

\* let completedDate = order[0].completed_date;
\* if (status === 'delivered' && !completedDate) completedDate = <now>
completedDate(status, read, t) ==
  IF status = "delivered" /\ read = 0 THEN Stamp(t) ELSE read

\* a row as POST /orders stored it
StoredOrder(i) ==
  [id |-> i] @@ OrderValues([route |-> "orders", order_source |-> "",
                             name |-> "Alice", phone |-> "0600",
                             address |-> "Rabat", notes |-> "", items |-> << >>])

OrderById(i) == CHOOSE o \in orders : o.id = i

StatusIdleWith(together) ==
  /\ sReq = [u \in Updates |-> NoUpdate]
  /\ pcS = [u \in Updates |-> "idle"]
  /\ sRead = [u \in Updates |-> 0]
  /\ sDate = [u \in Updates |-> 0]
  /\ sResp = [u \in Updates |-> 0]
  /\ overlap = together

notNow == <<downloadTokens, tempFiles, pcE, eResp, eToken, pcD, dTok, dFile,
            dResp, dLate, issuedAt, served, nStatic>>
notOrders == <<reqVars, orderItems, stock, colorStock, lockP, lockC,
               nextOrderId, nextItemId, stock0, colorStock0, broadcasts>>

\* time passes between the events of the status handlers
StatusTick ==
  /\ now < MaxStamp
  /\ now' = now + 1
  /\ UNCHANGED <<notNow, ordVars, auxVars>>

\* PUT /orders/:id/status arrives behind the auth middleware: the status is
\* validated, then the SELECT is issued
StatusRequest(u, id, status) ==
  /\ pcS[u] = "idle"
  /\ \A v \in Updates : v < u => pcS[v] # "idle"
  /\ overlap \/ \A v \in Updates : pcS[v] \in {"idle", "done"}
  /\ sReq' = [sReq EXCEPT ![u] = [id |-> id, status |-> status]]
  /\ IF status \notin validStatuses
     THEN /\ sResp' = [sResp EXCEPT ![u] = 400]
          /\ pcS' = [pcS EXCEPT ![u] = "done"]
     ELSE /\ pcS' = [pcS EXCEPT ![u] = "select"]
          /\ sResp' = sResp
  /\ UNCHANGED <<sRead, sDate, overlap, dlVars, ordVars, notStatus>>

\* await db.query('SELECT * FROM orders WHERE id = ?'), then completedDate
StatusSelect(u) ==
  /\ pcS[u] = "select"
  /\ IF \A o \in orders : o.id # sReq[u].id
     THEN /\ sResp' = [sResp EXCEPT ![u] = 404]
          /\ pcS' = [pcS EXCEPT ![u] = "done"]
          /\ UNCHANGED <<sRead, sDate>>
     ELSE /\ sRead' = [sRead EXCEPT ![u] = OrderById(sReq[u].id).completed_date]
          /\ sDate' = [sDate EXCEPT ![u] =
               completedDate(sReq[u].status, OrderById(sReq[u].id).completed_date, now)]
          /\ pcS' = [pcS EXCEPT ![u] = "update"]
          /\ sResp' = sResp
  /\ UNCHANGED <<sReq, overlap, dlVars, ordVars, notStatus>>

\* await db.query('UPDATE orders SET status = ?, completed_date = ? WHERE id = ?')
StatusUpdate(u) ==
  /\ pcS[u] = "update"
  /\ orders' = {IF o.id = sReq[u].id
                THEN [o EXCEPT !.status = sReq[u].status, !.completed_date = sDate[u]]
                ELSE o : o \in orders}
  /\ sResp' = [sResp EXCEPT ![u] = 200]
  /\ pcS' = [pcS EXCEPT ![u] = "done"]
  /\ UNCHANGED <<sReq, sRead, sDate, overlap, dlVars, notOrders,
                 notStatus>>

\* db.query rejects: catch, 500
StatusFault(u) ==
  /\ pcS[u] \in {"select", "update"}
  /\ sResp' = [sResp EXCEPT ![u] = 500]
  /\ pcS' = [pcS EXCEPT ![u] = "done"]
  /\ UNCHANGED <<sReq, sRead, sDate, overlap, dlVars, ordVars, notStatus>>

NextStatus ==
  \/ StatusTick
  \/ \E u \in Updates, id \in RequestedIds, status \in Statuses :
       StatusRequest(u, id, status)
  \/ \E u \in Updates : StatusSelect(u)
  \/ \E u \in Updates : StatusUpdate(u)
  \/ \E u \in Updates : StatusFault(u)

\* ------------------------------------------------------- export of orders
Days       == 1..MaxDay
StartOfDay == 0                      \* '00:00:00', in seconds
EndOfDay   == 86399                  \* '23:59:59'

\* the DATETIME 'day hh:mm:ss', in seconds
DateTime(day, sec) == day * 86400 + sec

Creds   == {"none", "bad", "good"}   \* no JWT, one that fails jwt.verify, a valid one
Formats == {"excel", "pdf", "word"}
NoTotal == 0 - 1                     \* the document prints no total for the order
NoExport == [mode |-> "", format |-> "", orderId |-> 0, status |-> "",
             startDate |-> 0, endDate |-> 0, hdr |-> "none", qtok |-> "none"]

\* a stored order with its creation time
ExportOrder(i, st, dt) ==
  [order_date |-> dt] @@ [StoredOrder(i) EXCEPT !.status = st]

\* the rows of order_items: two items for order 1, none for order 2
ExportItems ==
  {[id |-> 1, order_id |-> 1, product_id |-> 1, quantity |-> 1, price |-> 5, color_id |-> 0],
   [id |-> 2, order_id |-> 1, product_id |-> 2, quantity |-> 2, price |-> 5, color_id |-> 0]}

\* the WHERE clauses pushed for the filters of the request; a filter that is
\* falsy (0, "") is not pushed
whereClauses(q) ==
  (IF q.orderId # 0 THEN <<[col |-> "id", val |-> q.orderId]>> ELSE << >>)
  \o (IF q.status # "" /\ q.status # "all"
      THEN <<[col |-> "status", val |-> q.status]>> ELSE << >>)
  \o (IF q.startDate # 0
      THEN <<[col |-> "order_date >=", val |-> DateTime(q.startDate, StartOfDay)]>>
      ELSE << >>)
  \o (IF q.endDate # 0
      THEN <<[col |-> "order_date <=", val |-> DateTime(q.endDate, EndOfDay)]>>
      ELSE << >>)

\* row o satisfies one clause
Holds(o, c) ==
  CASE c.col = "id" -> o.id = c.val
    [] c.col = "status" -> o.status = c.val
    [] c.col = "order_date >=" -> o.order_date >= c.val
    [] OTHER -> o.order_date <= c.val

\* mutant: the clauses are joined with OR
Selected_or(table, q) ==
  {o \in table : \/ whereClauses(q) = << >>
                 \/ \E k \in 1..Len(whereClauses(q)) : Holds(o, whereClauses(q)[k])}

\* SELECT * FROM orders WHERE <clauses joined with AND>
Selected(table, q) ==
  {o \in table : \A k \in 1..Len(whereClauses(q)) : Holds(o, whereClauses(q)[k])}

\* SELECT oi.* FROM order_items oi JOIN products p ... WHERE oi.order_id = ?
ItemsOf(i) == {it \in orderItems : it.order_id = i /\ it.product_id \in Products}

\* sum of price * quantity over the items
RECURSIVE SumItems(_)
SumItems(S) ==
  IF S = {} THEN 0
  ELSE LET it == CHOOSE x \in S : TRUE
       IN it.price * it.quantity + SumItems(S \ {it})

\* the total a PDF or Word document prints: none when the order has no item
PrintedTotal(items) == IF items = {} THEN NoTotal ELSE SumItems(items)

\* statusMap of createExcelExport, statusInfo[..].text of createPdfExport
statusMap ==
  [st \in {"pending", "confirmed", "delivered", "cancelled"} |->
     CASE st = "pending" -> "En attente"
       [] st = "confirmed" -> "Confirmee"
       [] st = "delivered" -> "Livree"
       [] OTHER -> "Annulee"]
statusInfo == statusMap

\* the switch of createWordExport
statusText(st) ==
  CASE st = "confirmed" -> "Confirmee"
    [] st = "delivered" -> "Livree"
    [] st = "cancelled" -> "Annulee"
    [] OTHER -> "En attente"

\* deferred mode: the three generators print the stored status as it is
generateExcelFile(o, items) ==
  [label |-> OrElse(o.status, "N/A"), total |-> NoTotal]
generatePdfFile(o, items) ==
  [label |-> OrElse(o.status, "N/A"), total |-> PrintedTotal(items)]
generateWordFile(o, items) ==
  [label |-> OrElse(o.status, "N/A"), total |-> PrintedTotal(items)]

\* synchronous mode
createExcelExport(o, items) ==
  [label |-> IF o.status \in DOMAIN statusMap THEN statusMap[o.status]
             ELSE "En attente",
   total |-> NoTotal]
createPdfExport(o, items) ==
  [label |-> statusInfo[OrElse(o.status, "pending")], total |-> PrintedTotal(items)]
createWordExport(o, items) ==
  [label |-> statusText(o.status), total |-> PrintedTotal(items)]

\* statusInfo[status].text of createPdfExport throws a TypeError
PdfThrows(o) == OrElse(o.status, "pending") \notin DOMAIN statusInfo

RenderOrder(mode, format, o, items) ==
  CASE mode = "prepare" /\ format = "excel" -> generateExcelFile(o, items)
    [] mode = "prepare" /\ format = "pdf" -> generatePdfFile(o, items)
    [] mode = "prepare" /\ format = "word" -> generateWordFile(o, items)
    [] mode = "export" /\ format = "excel" -> createExcelExport(o, items)
    [] mode = "export" /\ format = "pdf" -> createPdfExport(o, items)
    [] OTHER -> createWordExport(o, items)

\* the document of one request: the exception of createPdfExport is caught
\* around the whole document and answered 500
Document(mode, format, sel) ==
  IF mode = "export" /\ format = "pdf" /\ \E i \in sel : PdfThrows(OrderById(i))
  THEN [ok |-> FALSE, rows |-> << >>]
  ELSE [ok |-> TRUE,
        rows |-> [i \in sel |-> RenderOrder(mode, format, OrderById(i), ItemsOf(i))]]

NoDocument == [ok |-> TRUE, rows |-> << >>]

ExportIdle ==
  /\ xReq = NoExport
  /\ xPc = "idle"
  /\ xResp = 0
  /\ xSel = {}
  /\ xDoc = NoDocument
  /\ xFaulted = FALSE

\* the request has no filter
Plain(q) == q.orderId = 0 /\ q.status = "" /\ q.startDate = 0 /\ q.endDate = 0

\* POST /orders/prepare-export arrives behind the auth middleware; GET
\* /orders/export carries any credentials.  Credentials and the format that
\* is refused vary on the requests without filter only.
ExportRequests ==
  {q \in [mode : {"prepare", "export"}, format : Formats \cup {"csv"},
          orderId : {0, 1, 2, 3}, status : {"", "all", "confirmed", "pending"},
          startDate : {0} \cup Days, endDate : {0} \cup Days,
          hdr : Creds, qtok : Creds] :
     /\ q.mode = "prepare" => (q.hdr = "good" /\ q.qtok = "none")
     /\ ~Plain(q) => /\ q.format \in Formats
                     /\ q.mode = "export" => (q.hdr = "none" /\ q.qtok = "good")}

\* the handler up to its first query.  Every GET /orders/export is answered
\* by the route registered first (auth.js:300), which reads the token of the
\* query string only and never calls next()
ExportRequest ==
  /\ xPc = "request"
  /\ IF xReq.mode = "export" /\ xReq.qtok # "good"
     THEN xResp' = 401 /\ xPc' = "done"
     ELSE IF xReq.format \notin Formats
          THEN xResp' = 400 /\ xPc' = "done"
          ELSE xResp' = xResp /\ xPc' = "query"
  /\ UNCHANGED <<xReq, xSel, xDoc, xFaulted, dlVars, ordVars, notExport>>

\* await db.query(query, queryParams), and the items of each order
ExportQuery ==
  /\ xPc = "query"
  /\ xSel' = {o.id : o \in Selected(orders, xReq)}
  /\ xPc' = "render"
  /\ UNCHANGED <<xReq, xResp, xDoc, xFaulted, dlVars, ordVars, notExport>>

\* generate<Format>File and the token answer, or create<Format>Export
ExportRender ==
  /\ xPc = "render"
  /\ xDoc' = Document(xReq.mode, xReq.format, xSel)
  /\ xResp' = IF xDoc'.ok THEN 200 ELSE 500
  /\ xPc' = "done"
  /\ UNCHANGED <<xReq, xSel, xFaulted, dlVars, ordVars, notExport>>

\* db.query rejects: catch, 500
ExportFault ==
  /\ xPc = "query"
  /\ xFaulted' = TRUE
  /\ xResp' = 500
  /\ xPc' = "done"
  /\ UNCHANGED <<xReq, xSel, xDoc, dlVars, ordVars, notExport>>

NextExport ==
  \/ ExportRequest
  \/ ExportQuery
  \/ ExportRender
  \/ ExportFault

\* -------------------------------------------------------- product update
SavedProducts == {1, 2}              \* rows of products
TempIds       == {100}               \* ids of the form 'temp-...'
ColorFields   == {7}                 \* the fields an entry supplies (its stock)

\* color.id.toString().startsWith('temp-')
IsTemp(id) == id \in TempIds

\* an entry of req.body.colors; id 0 is an absent id
ColorEntry == [id : {0, 1, 2, 3} \cup TempIds, isNew : BOOLEAN, stock : ColorFields]

\* colors 1 and 2 belong to product 1, color 3 to product 2
StoredColors ==
  {[id |-> 1, product_id |-> 1, stock |-> 1],
   [id |-> 2, product_id |-> 1, stock |-> 1],
   [id |-> 3, product_id |-> 2, stock |-> 1]}

NoProductReq == [productId |-> 0, hasColors |-> FALSE, colors |-> << >>]

\* PUT /products/:id for product 1 or for product 9, which does not exist,
\* with or without a colors field
ProductRequests ==
  {q \in [productId : {1, 9}, hasColors : BOOLEAN,
          colors : SeqsUpTo(ColorEntry, MaxColors)] :
     ~q.hasColors => q.colors = << >>}

\* colors.filter(c => !c.isNew && c.id).map(c => c.id)
existingColorIds(colors) ==
  {colors[k].id : k \in {j \in 1..Len(colors) : ~colors[j].isNew /\ colors[j].id # 0}}

\* the text `id NOT IN (${existingColorIds.join(',')})` is no valid SQL when
\* an id is not a number
DeleteRejected(colors) == \E id \in existingColorIds(colors) : IsTemp(id)

\* DELETE FROM product_colors WHERE product_id = ? [AND id NOT IN (...)]
AfterDelete(table, productId, colors) ==
  IF existingColorIds(colors) # {}
  THEN {c \in table : ~(c.product_id = productId /\ c.id \notin existingColorIds(colors))}
  ELSE {c \in table : c.product_id # productId}

\* color.isNew || !color.id || color.id.toString().startsWith('temp-')
InsertsColor(color) == color.isNew \/ color.id = 0 \/ IsTemp(color.id)

ProductIdle ==
  /\ pReq = NoProductReq
  /\ pPc = "idle"
  /\ pIdx = 0
  /\ pResp = 0
  /\ pLeased = FALSE
  /\ pTxOpen = FALSE
  /\ pTx = {}
  /\ productColors = StoredColors
  /\ nextColorId = 4
  /\ productColors0 = StoredColors

\* position after the delete step or after color pIdx
AfterColor(i) ==
  IF i < Len(pReq.colors)
  THEN pIdx' = i + 1 /\ pPc' = "color"
  ELSE pIdx' = pIdx /\ pPc' = "commit"

\* await connection.beginTransaction()
ProductBegin ==
  /\ pPc = "begin"
  /\ pTxOpen' = TRUE
  /\ pTx' = productColors
  /\ pPc' = "product"
  /\ UNCHANGED <<pReq, pIdx, pResp, pLeased, productColors, nextColorId,
                 productColors0, notProduct>>

\* SELECT * FROM products WHERE id = ?, 404 or UPDATE products
ProductUpdate ==
  /\ pPc = "product"
  /\ IF pReq.productId \notin SavedProducts
     THEN /\ pResp' = 404
          /\ pLeased' = FALSE
          /\ pPc' = "done"
          /\ pIdx' = pIdx
     ELSE /\ UNCHANGED <<pResp, pLeased>>
          /\ IF pReq.hasColors
             THEN pPc' = "delete" /\ pIdx' = pIdx
             ELSE pPc' = "commit" /\ pIdx' = pIdx
  /\ UNCHANGED <<pReq, pTxOpen, pTx, productColors, nextColorId,
                 productColors0, notProduct>>

\* the DELETE of the colors that were removed; a statement MySQL refuses
\* goes to the catch block
ProductDeleteColors ==
  /\ pPc = "delete"
  /\ IF DeleteRejected(pReq.colors)
     THEN /\ pPc' = "rollback"
          /\ UNCHANGED <<pTx, pIdx>>
     ELSE /\ pTx' = AfterDelete(pTx, pReq.productId, pReq.colors)
          /\ AfterColor(0)
  /\ UNCHANGED <<pReq, pResp, pLeased, pTxOpen, productColors, nextColorId,
                 productColors0, notProduct>>

\* one pass of the color loop: INSERT INTO or UPDATE product_colors
ProductColor ==
  /\ pPc = "color"
  /\ LET color == pReq.colors[pIdx]
     IN IF InsertsColor(color)
        THEN /\ pTx' = pTx \cup {[id |-> nextColorId, product_id |-> pReq.productId,
                                  stock |-> color.stock]}
             /\ nextColorId' = nextColorId + 1
        ELSE /\ pTx' = {IF c.id = color.id /\ c.product_id = pReq.productId
                        THEN [c EXCEPT !.stock = color.stock] ELSE c : c \in pTx}
             /\ nextColorId' = nextColorId
  /\ AfterColor(pIdx)
  /\ UNCHANGED <<pReq, pResp, pLeased, pTxOpen, productColors, productColors0,
                 notProduct>>

\* await connection.commit()
ProductCommit ==
  /\ pPc = "commit"
  /\ productColors' = pTx
  /\ pTxOpen' = FALSE
  /\ pPc' = "respond"
  /\ UNCHANGED <<pReq, pIdx, pResp, pLeased, pTx, nextColorId, productColors0,
                 notProduct>>

\* the two SELECTs after the commit and res.json
ProductRespond ==
  /\ pPc = "respond"
  /\ pResp' = 200
  /\ pLeased' = FALSE
  /\ pPc' = "done"
  /\ UNCHANGED <<pReq, pIdx, pTxOpen, pTx, productColors, nextColorId,
                 productColors0, notProduct>>

\* an awaited call rejects
ProductFault ==
  /\ pPc \in {"begin", "product", "delete", "color", "commit", "respond"}
  /\ pPc' = "rollback"
  /\ UNCHANGED <<pReq, pIdx, pResp, pLeased, pTxOpen, pTx, productColors,
                 nextColorId, productColors0, notProduct>>

\* catch: await connection.rollback(), 500, finally release
ProductRollback ==
  /\ pPc = "rollback"
  /\ pTx' = productColors
  /\ pTxOpen' = FALSE
  /\ pResp' = 500
  /\ pLeased' = FALSE
  /\ pPc' = "done"
  /\ UNCHANGED <<pReq, pIdx, productColors, nextColorId, productColors0,
                 notProduct>>

\* catch: await connection.rollback() rejects; finally releases the
\* connection and the route's own catch answers 500
ProductRollbackFail ==
  /\ pPc = "rollback"
  /\ \E dropped \in BOOLEAN :
       IF dropped THEN pTx' = productColors /\ pTxOpen' = FALSE
       ELSE UNCHANGED <<pTx, pTxOpen>>
  /\ pResp' = 500
  /\ pLeased' = FALSE
  /\ pPc' = "done"
  /\ UNCHANGED <<pReq, pIdx, productColors, nextColorId, productColors0,
                 notProduct>>

NextProduct ==
  \/ ProductBegin
  \/ ProductUpdate
  \/ ProductDeleteColors
  \/ ProductColor
  \/ ProductCommit
  \/ ProductRespond
  \/ ProductFault
  \/ ProductRollback
  \/ ProductRollbackFail

\* ----------------------------------------------------------- admin sockets
Sockets == 1..MaxSockets
Tokens  == {"", "bad", "good"}        \* empty, failing verification, valid

\* mutant: the notification goes to every connected socket (io.emit)
Recipients_all(registry, connected) == connected

\* adminSockets.forEach(socketId => io.to(socketId).emit(...)): the room of
\* a socket id holds that socket while it is connected
Recipients(registry, connected) == registry \cap connected

Connected == {s \in Sockets : sockState[s] = "connected"}

SocketsIdle ==
  /\ sockState = [s \in Sockets |-> "new"]
  /\ adminSockets = {}
  /\ sentValid = [s \in Sockets |-> FALSE]
  /\ inbox = [s \in Sockets |-> {}]
  /\ nNotif = 0

\* io.on('connection'); sockets are numbered in order of connection
Connect(s) ==
  /\ sockState[s] = "new"
  /\ \A t \in Sockets : t < s => sockState[t] # "new"
  /\ sockState' = [sockState EXCEPT ![s] = "connected"]
  /\ UNCHANGED <<adminSockets, sentValid, inbox, nNotif, notSocket>>

\* socket.on('admin:authenticate', token): the token is not looked at
Authenticate(s, token) ==
  /\ sockState[s] = "connected"
  /\ adminSockets' = adminSockets \cup {s}
  /\ sentValid' = [sentValid EXCEPT ![s] = @ \/ token = "good"]
  /\ UNCHANGED <<sockState, inbox, nNotif, notSocket>>

\* socket.on('disconnect')
Disconnect(s) ==
  /\ sockState[s] = "connected"
  /\ sockState' = [sockState EXCEPT ![s] = "closed"]
  /\ adminSockets' = adminSockets \ {s}
  /\ UNCHANGED <<sentValid, inbox, nNotif, notSocket>>

\* notifyAdmins(io, adminSockets, notification), called by an order route
NotifyAdmins ==
  /\ nNotif < MaxNotifs
  /\ nNotif' = nNotif + 1
  /\ inbox' = [s \in Sockets |->
                 IF s \in Recipients(adminSockets, Connected)
                 THEN inbox[s] \cup {nNotif + 1} ELSE inbox[s]]
  /\ UNCHANGED <<sockState, adminSockets, sentValid, notSocket>>

NextSockets ==
  \/ \E s \in Sockets : Connect(s)
  \/ \E s \in Sockets, token \in Tokens : Authenticate(s, token)
  \/ \E s \in Sockets : Disconnect(s)
  \/ NotifyAdmins

\* ------------------------------------------------------------- banners
BannerReqs == 1..MaxBannerReqs
BannerIds  == {1, 2}                 \* req.params.id of a PUT
NoBannerReq == [method |-> "", id |-> 0, hasFile |-> FALSE]

\* POST /banners and PUT /banners/:id, with or without an image part
BannerRequests ==
  [method : {"post"}, id : {0}, hasFile : BOOLEAN] \cup
  [method : {"put"}, id : BannerIds, hasFile : BOOLEAN]

BannerRow(id) == {b \in banners : b.id = id}

BannersIdle ==
  /\ bReq = [r \in BannerReqs |-> NoBannerReq]
  /\ bPc = [r \in BannerReqs |-> "absent"]
  /\ bResp = [r \in BannerReqs |-> 0]
  /\ bFile = [r \in BannerReqs |-> FALSE]
  /\ bFaulted = [r \in BannerReqs |-> ""]
  /\ banners = {[id |-> 1, image |-> 0]}
  /\ nextBannerId = 2

\* uploadTemp.single('image') stores the image part in the temp directory,
\* then the handler runs up to its first await
BannerRequest(r, b) ==
  /\ bPc[r] = "absent"
  /\ \A x \in BannerReqs : x < r => bPc[x] # "absent"
  /\ bReq' = [bReq EXCEPT ![r] = b]
  /\ bFile' = [bFile EXCEPT ![r] = b.hasFile]
  /\ IF b.method = "post"
     THEN IF ~b.hasFile
          THEN /\ bResp' = [bResp EXCEPT ![r] = 400]
               /\ bPc' = [bPc EXCEPT ![r] = "done"]
          ELSE /\ bPc' = [bPc EXCEPT ![r] = "upload"]
               /\ UNCHANGED bResp
     ELSE /\ bPc' = [bPc EXCEPT ![r] = "select"]
          /\ UNCHANGED bResp
  /\ UNCHANGED <<bFaulted, banners, nextBannerId, notBanner>>

\* PUT: SELECT * FROM banners WHERE id = ?, and the 404 return
BannerSelect(r) ==
  /\ bPc[r] = "select"
  /\ IF BannerRow(bReq[r].id) = {}
     THEN /\ bResp' = [bResp EXCEPT ![r] = 404]
          /\ bPc' = [bPc EXCEPT ![r] = "done"]
     ELSE /\ bPc' = [bPc EXCEPT ![r] =
                       IF bReq[r].hasFile THEN "upload" ELSE "update"]
          /\ UNCHANGED bResp
  /\ UNCHANGED <<bReq, bFile, bFaulted, banners, nextBannerId, notBanner>>

\* imgbbService.uploadImage resolves; the PUT handler unlinks the file here
BannerUploaded(r) ==
  /\ bPc[r] = "upload"
  /\ IF bReq[r].method = "post"
     THEN /\ bPc' = [bPc EXCEPT ![r] = "insert"]
          /\ UNCHANGED bFile
     ELSE /\ bPc' = [bPc EXCEPT ![r] = "update"]
          /\ bFile' = [bFile EXCEPT ![r] = FALSE]
  /\ UNCHANGED <<bReq, bResp, bFaulted, banners, nextBannerId, notBanner>>

\* POST: INSERT INTO banners, then the temporary file is unlinked
BannerInsert(r) ==
  /\ bPc[r] = "insert"
  /\ banners' = banners \cup {[id |-> nextBannerId, image |-> r]}
  /\ nextBannerId' = nextBannerId + 1
  /\ bReq' = [bReq EXCEPT ![r].id = nextBannerId]
  /\ bFile' = [bFile EXCEPT ![r] = FALSE]
  /\ bPc' = [bPc EXCEPT ![r] = "reselect"]
  /\ UNCHANGED <<bResp, bFaulted, notBanner>>

\* PUT: UPDATE banners SET image = ? ... WHERE id = ?
BannerUpdate(r) ==
  /\ bPc[r] = "update"
  /\ banners' = {IF b.id = bReq[r].id /\ bReq[r].hasFile
                 THEN [b EXCEPT !.image = r] ELSE b : b \in banners}
  /\ bPc' = [bPc EXCEPT ![r] = "reselect"]
  /\ UNCHANGED <<bReq, bResp, bFile, bFaulted, nextBannerId, notBanner>>

\* the final SELECT and the 201 / 200 response
BannerRespond(r) ==
  /\ bPc[r] = "reselect"
  /\ bResp' = [bResp EXCEPT ![r] =
                 IF bReq[r].method = "post" THEN 201 ELSE 200]
  /\ bPc' = [bPc EXCEPT ![r] = "done"]
  /\ UNCHANGED <<bReq, bFile, bFaulted, banners, nextBannerId, notBanner>>

\* an awaited call rejects: the catch block unlinks the file if it exists
\* and answers 500
BannerFault(r) ==
  /\ bPc[r] \in {"select", "upload", "insert", "update", "reselect"}
  /\ bFaulted' = [bFaulted EXCEPT ![r] = bPc[r]]
  /\ bFile' = [bFile EXCEPT ![r] = FALSE]
  /\ bResp' = [bResp EXCEPT ![r] = 500]
  /\ bPc' = [bPc EXCEPT ![r] = "done"]
  /\ UNCHANGED <<bReq, banners, nextBannerId, notBanner>>

NextBanners ==
  \/ \E r \in BannerReqs, b \in BannerRequests : BannerRequest(r, b)
  \/ \E r \in BannerReqs : BannerSelect(r)
  \/ \E r \in BannerReqs : BannerUploaded(r)
  \/ \E r \in BannerReqs : BannerInsert(r)
  \/ \E r \in BannerReqs : BannerUpdate(r)
  \/ \E r \in BannerReqs : BannerRespond(r)
  \/ \E r \in BannerReqs : BannerFault(r)

\* ---------------------------------------------------------- specifications
AuxIdle ==
  StatusIdleWith(FALSE) /\ ExportIdle /\ ProductIdle /\ SocketsIdle /\ BannersIdle

\* one order request at a time, any body
InitOrders == InitOrdersWith({1}, Body) /\ InitDownload /\ AuxIdle
SpecOrders == InitOrders /\ [][NextOrders]_vars

\* two order requests in flight together
InitOrdersConc == InitOrdersWith(Reqs, ConcBody) /\ InitDownload /\ AuxIdle
SpecOrdersConc == InitOrdersConc /\ [][NextOrders]_vars

\* the export and download requests alone
InitDownloadOnly == InitDownload /\ OrdersIdle /\ AuxIdle
SpecDownload == InitDownloadOnly /\ [][NextDownload]_vars

\* The server's own steps are taken when they are enabled: the clock
\* advances, an awaited promise settles, a stream ends, an unlink completes.
\* Requests of clients (Download, ServeTemp) and I/O failures carry no
\* fairness: nothing obliges a client to fetch its link.
FairDownload ==
  /\ WF_vars(Tick)
  /\ \A e \in Exports : WF_vars(PrepareExportRender(e))
  /\ \A e \in Exports : WF_vars(PrepareExportToken(e))
  /\ \A d \in Downloads : WF_vars(StreamEnd(d))
  /\ \A d \in Downloads : WF_vars(Unlink(d))

SpecDownloadFair == InitDownloadOnly /\ [][NextDownload]_vars /\ FairDownload

\* status updates applied one after another to two stored orders
InitStatus ==
  /\ InitDownload
  /\ SocketsIdle
  /\ BannersIdle
  /\ OrdersIdleWith({StoredOrder(i) : i \in StoredIds}, {})
  /\ StatusIdleWith(FALSE)
  /\ ExportIdle
  /\ ProductIdle
SpecStatus == InitStatus /\ [][NextStatus]_vars

\* status updates in flight together
InitStatusConc ==
  /\ InitDownload
  /\ SocketsIdle
  /\ BannersIdle
  /\ OrdersIdleWith({StoredOrder(i) : i \in StoredIds}, {})
  /\ StatusIdleWith(TRUE)
  /\ ExportIdle
  /\ ProductIdle
SpecStatusConc == InitStatusConc /\ [][NextStatus]_vars

\* one export request over a table of two orders
InitExport ==
  /\ InitDownload
  /\ SocketsIdle
  /\ BannersIdle
  /\ \E st \in Statuses, d1 \in Days, d2 \in Days, sec \in {StartOfDay, EndOfDay} :
       OrdersIdleWith({ExportOrder(1, st, DateTime(d1, sec)),
                       ExportOrder(2, "confirmed", DateTime(d2, 43200))},
                      ExportItems)
  /\ StatusIdleWith(FALSE)
  /\ xReq \in ExportRequests
  /\ xPc = "request"
  /\ xResp = 0
  /\ xSel = {}
  /\ xDoc = NoDocument
  /\ xFaulted = FALSE
  /\ ProductIdle
SpecExport == InitExport /\ [][NextExport]_vars

\* an order request and a product update, each holding its connection
SaveItem == [productId |-> 1, colorId |-> 0, quantity |-> 1, price |-> 5]
SaveBody ==
  {b \in Body : /\ b.phone = "0600" /\ b.address = "Rabat"
                /\ \A k \in 1..Len(b.items) : b.items[k] = SaveItem}
SaveEntries == {[id |-> 1, isNew |-> FALSE, stock |-> 7],
                [id |-> 0, isNew |-> TRUE, stock |-> 7]}
SaveProductRequests ==
  {q \in ProductRequests : \A k \in 1..Len(q.colors) : q.colors[k] \in SaveEntries}

InitSave ==
  /\ InitOrdersWith({1}, SaveBody)
  /\ InitDownload
  /\ SocketsIdle
  /\ BannersIdle
  /\ StatusIdleWith(FALSE)
  /\ ExportIdle
  /\ pReq \in SaveProductRequests
  /\ pPc = "begin"
  /\ pIdx = 0
  /\ pResp = 0
  /\ pLeased = TRUE
  /\ pTxOpen = FALSE
  /\ pTx = {}
  /\ productColors = StoredColors
  /\ nextColorId = 4
  /\ productColors0 = StoredColors
NextSave == NextOrders \/ NextProduct
SpecSave == InitSave /\ [][NextSave]_vars

\* the sockets of the notification service and the broadcasts to them
InitSockets == InitDownload /\ OrdersIdle /\ AuxIdle
SpecSockets == InitSockets /\ [][NextSockets]_vars

\* banner create and update requests, overlapping at their awaits
InitBanners == InitDownload /\ OrdersIdle /\ AuxIdle
SpecBanners == InitBanners /\ [][NextBanners]_vars

\* one product update; its connection is checked out
InitProduct ==
  /\ InitDownload
  /\ SocketsIdle
  /\ BannersIdle
  /\ OrdersIdle
  /\ StatusIdleWith(FALSE)
  /\ ExportIdle
  /\ pReq \in ProductRequests
  /\ pPc = "begin"
  /\ pIdx = 0
  /\ pResp = 0
  /\ pLeased = TRUE
  /\ pTxOpen = FALSE
  /\ pTx = {}
  /\ productColors = StoredColors
  /\ nextColorId = 4
  /\ productColors0 = StoredColors
SpecProduct == InitProduct /\ [][NextProduct]_vars

\* ------------------------------------------------ claims: download tokens
Verified(d) == pcD[d] # "idle"
Passed(d)   == Verified(d) /\ dResp[d] \in {200, 404}

\* requests that presented token t no later than its expiry instant
InTime(t) == {d \in Downloads : Verified(d) /\ dTok[d] = t /\ ~dLate[d]}
First(S)  == CHOOSE d \in S : \A x \in S : d <= x

\* C1: of the download requests that present an issued token before it
\* expires, exactly the first passes token verification and every later one
\* is answered 401, also while the first is still streaming.
C1_OneRetrieval ==
  \A t \in DOMAIN issuedAt :
    InTime(t) # {} =>
      /\ Passed(First(InTime(t)))
      /\ \A d \in InTime(t) \ {First(InTime(t))} : dResp[d] = 401

C1_Witness ==
  \E t \in DOMAIN issuedAt : \E d1, d2 \in InTime(t) :
    /\ d1 < d2
    /\ pcD[d1] = "streaming"
    /\ dResp[d2] = 401

\* C2: a request presenting a token after its expiry instant (5 minutes from
\* issue) is answered 401, and the token is then absent from the registry.
C2_ExpiredRejected ==
  \A d \in Downloads :
    (Verified(d) /\ dLate[d]) =>
      /\ dResp[d] = 401
      /\ dFile[d] = 0
      /\ dTok[d] \notin DOMAIN downloadTokens

C2_Witness ==
  \E d \in Downloads :
    /\ Verified(d) /\ dLate[d]
    /\ dResp[d] = 401
    /\ \A x \in Downloads \ {d} : dTok[x] # dTok[d]

\* C3: once a download that passed verification has finished streaming,
\* normally or with an error, its token is absent from the registry and its
\* temporary file is deleted.
C3_FileDeletedAfterStream ==
  \A d \in Downloads :
    (dResp[d] = 200 /\ pcD[d] \in {"done", "errored"}) =>
      /\ dTok[d] \notin DOMAIN downloadTokens
      /\ dFile[d] \notin tempFiles

\* C4: a file of the temporary export directory is served only by the
\* download route, to a request presenting a token the server issued.
C4_OnlyTokenGated ==
  \A s \in served : s.route = "download" /\ s.token \in DOMAIN issuedAt

\* ------------------------------------------------ claims: order creation
IsWhatsAppSourced(body) == body.route = "whatsapp" \/ body.order_source = "whatsapp"
IsWebOrder(body) == body.route = "orders" /\ body.order_source # "whatsapp"
TxnSteps == {"insertOrder", "insertItem", "updateStock", "commit"}
OrderRows(r) == {o \in orders : o.id = orderId[r]}
ItemRows(r)  == {i \in orderItems : i.order_id = orderId[r]}
Created(r)   == pc[r] = "done" /\ resp[r] = 201

\* C5: when a statement of the transaction has failed, the request ends with
\* 500 and no order row, no item row and no stock change of it is visible.
C5_FailureRollsBack ==
  \A r \in Reqs :
    (pc[r] = "done" /\ faulted[r] \in TxnSteps) =>
      /\ resp[r] = 500
      /\ OrderRows(r) = {} /\ ItemRows(r) = {}
      /\ stock = stock0 /\ colorStock = colorStock0

\* C6: a web order answered 201 has exactly one order row, of source
\* 'website', and exactly len(items) item rows, one per supplied item.
C6_WebOrderRows ==
  \A r \in Reqs :
    (Created(r) /\ IsWebOrder(req[r])) =>
      /\ Cardinality(OrderRows(r)) = 1
      /\ \A o \in OrderRows(r) : o.order_source = "website"
      /\ Cardinality(ItemRows(r)) = Len(req[r].items)
      /\ \A k \in 1..Len(req[r].items) :
           \E i \in ItemRows(r) :
             /\ i.product_id = req[r].items[k].productId
             /\ i.color_id = req[r].items[k].colorId
             /\ i.quantity = req[r].items[k].quantity
      /\ \A i \in ItemRows(r) :
           \E k \in 1..Len(req[r].items) :
             /\ i.product_id = req[r].items[k].productId
             /\ i.color_id = req[r].items[k].colorId
             /\ i.quantity = req[r].items[k].quantity

C6_Witness ==
  \E r \in Reqs :
    /\ Created(r) /\ IsWebOrder(req[r])
    /\ Len(req[r].items) = 2
    /\ req[r].items[1] = req[r].items[2]
    /\ Cardinality(ItemRows(r)) = 2

\* C7: every stored order of source 'whatsapp' carries the placeholder name,
\* phone and address, whatever the request supplied.
C7_Placeholders ==
  \A o \in orders :
    o.order_source = "whatsapp" =>
      /\ o.name = "WhatsApp Order"
      /\ o.phone = "WhatsApp"
      /\ o.address = "To be provided via WhatsApp"

\* C8: a WhatsApp-sourced order, through either route, runs no stock UPDATE
\* and leaves every product stock and color stock unchanged; a created
\* regular order runs one stock UPDATE per item.
C8_WhatsAppKeepsStock ==
  \A r \in Reqs :
    /\ (pc[r] # "absent" /\ IsWhatsAppSourced(req[r])) =>
         /\ stock = stock0 /\ colorStock = colorStock0
         /\ txStock[r] = << >> /\ txColorStock[r] = << >>
         /\ affected[r] = << >>
    /\ (Created(r) /\ IsWebOrder(req[r])) =>
         Len(affected[r]) = Len(req[r].items)

C8_Witness ==
  \E r \in Reqs :
    /\ Created(r)
    /\ req[r].route = "orders" /\ req[r].order_source = "whatsapp"
    /\ \E k \in 1..Len(req[r].items) :
         /\ req[r].items[k].colorId = 0
         /\ req[r].items[k].quantity >= 1
         /\ req[r].items[k].quantity <= stock0[req[r].items[k].productId]
    /\ ItemRows(r) # {}

\* the step of request r that runs the stock UPDATE of its current item
StockStep(r) == pc[r] = "updateStock" /\ pc'[r] \in {"insertItem", "commit"}
OtherProductsKept(r, keep) ==
  \A p \in Products \ keep : ViewP(txStock', stock', r, p) = ViewP(txStock, stock, r, p)
OtherColorsKept(r, keep) ==
  \A c \in Colors \ keep :
    ViewP(txColorStock', colorStock', r, c) = ViewP(txColorStock, colorStock, r, c)

\* a request that met no failure and was not rejected is answered 201 with
\* its order stored, whether or not its stock UPDATEs changed a row; the
\* stock of a one-item order is committed as updated
C9_Created ==
  \A r \in Reqs :
    /\ (pc[r] = "done" /\ faulted[r] = "" /\ ~Rejected(req[r])) =>
         (resp[r] = 201 /\ OrderRows(r) # {})
    /\ (Created(r) /\ IsWebOrder(req[r]) /\ Len(req[r].items) = 1
          /\ req[r].items[1].colorId = 0 /\ pc = [x \in Reqs |-> IF x = r THEN "done" ELSE "absent"]) =>
         LET p == req[r].items[1].productId
             q == req[r].items[1].quantity
         IN stock[p] = (IF q <= stock0[p] THEN stock0[p] - q ELSE stock0[p])

\* C9 as claimed: the UPDATE of an item with a color takes q from that
\* color's stock S when q <= S, whatever product the color belongs to.
C9_Original ==
  [][\A r \in Reqs : StockStep(r) =>
       LET item == req[r].items[idx[r]]
           q == item.quantity
       IN IF item.colorId # 0
          THEN LET S == ViewP(txColorStock, colorStock, r, item.colorId)
               IN /\ ViewP(txColorStock', colorStock', r, item.colorId)
                       = (IF q <= S THEN S - q ELSE S)
                  /\ OtherColorsKept(r, {item.colorId})
                  /\ OtherProductsKept(r, {})
          ELSE LET S == ViewP(txStock, stock, r, item.productId)
               IN /\ ViewP(txStock', stock', r, item.productId)
                       = (IF q <= S THEN S - q ELSE S)
                  /\ OtherProductsKept(r, {item.productId})
                  /\ OtherColorsKept(r, {})]_vars

\* C9 (amended): for an item of a web order with quantity q, the targeted
\* stock S (the named color's stock when the item has a color that belongs
\* to the item's product, the product's stock when the item has no color)
\* becomes S - q when q <= S and stays S when q > S; an item whose color
\* belongs to another product changes no stock; no other stock row changes,
\* and the order is created and answered 201 in every one of these cases.
C9_StockUpdate ==
  /\ []C9_Created
  /\ [][\A r \in Reqs : StockStep(r) =>
       LET item == req[r].items[idx[r]]
           q == item.quantity
       IN IF item.colorId # 0
          THEN LET S == ViewP(txColorStock, colorStock, r, item.colorId)
               IN /\ ViewP(txColorStock', colorStock', r, item.colorId)
                       = (IF colorProduct[item.colorId] = item.productId /\ q <= S
                          THEN S - q ELSE S)
                  /\ OtherColorsKept(r, {item.colorId})
                  /\ OtherProductsKept(r, {})
          ELSE LET S == ViewP(txStock, stock, r, item.productId)
               IN /\ ViewP(txStock', stock', r, item.productId)
                       = (IF q <= S THEN S - q ELSE S)
                  /\ OtherProductsKept(r, {item.productId})
                  /\ OtherColorsKept(r, {})]_vars

C9_Witness ==
  \E r \in Reqs :
    /\ Created(r) /\ IsWebOrder(req[r])
    /\ Len(req[r].items) = 2
    /\ \A k \in 1..2 : req[r].items[k].productId = 1 /\ req[r].items[k].colorId = 0
    /\ req[r].items[1].quantity >= 1
    /\ req[r].items[1].quantity <= stock0[1]
    /\ req[r].items[2].quantity > stock0[1] - req[r].items[1].quantity
    /\ affected[r] = <<1, 0>>
    /\ stock[1] = stock0[1] - req[r].items[1].quantity

\* two requests, each for quantity q of product 1, with q <= S < 2q
Scarce ==
  /\ \A r \in Reqs : Len(req[r].items) = 1
  /\ req[1].items[1].quantity = req[2].items[1].quantity
  /\ req[1].items[1].quantity <= stock0[1]
  /\ stock0[1] < 2 * req[1].items[1].quantity

\* C10: two concurrent web orders for quantity q of the same product with
\* q <= S < 2q, none meeting a datastore failure: both are answered 201 and
\* keep their rows, exactly one of them decrements the stock, the final
\* stock is S - q, and no stock is negative at any point.
C10_ScarceStock ==
  /\ \A p \in Products : stock[p] >= 0
  /\ \A r \in Reqs : \A p \in Products : ViewP(txStock, stock, r, p) >= 0
  /\ \A r \in Reqs :
       (pc[r] = "done" /\ faulted[r] = "") =>
         /\ resp[r] = 201
         /\ Cardinality(OrderRows(r)) = 1
         /\ Cardinality(ItemRows(r)) = Len(req[r].items)
  /\ (Scarce /\ \A r \in Reqs : faulted[r] = "") =>
       /\ ~(\A r \in Reqs : affected[r] = <<1>>)
       /\ (\A r \in Reqs : pc[r] = "done") =>
            /\ stock[1] = stock0[1] - req[1].items[1].quantity
            /\ \E r \in Reqs : affected[r] = <<1>>

C10_Witness ==
  /\ Scarce
  /\ \A r \in Reqs : Created(r) /\ faulted[r] = ""
  /\ affected[2] = <<1>> /\ affected[1] = <<0>>
  /\ stock[1] = stock0[1] - req[1].items[1].quantity

\* a body POST /orders must refuse: no items, or a regular order that lacks
\* its name, phone or address
InvalidOrder(body) ==
  /\ body.route = "orders"
  /\ \/ Len(body.items) = 0
     \/ /\ body.order_source # "whatsapp"
        /\ (body.name = "" \/ body.phone = "" \/ body.address = "")

\* C11: POST /orders with no items, or for a regular order without name,
\* phone or address, is answered 400 (when the datastore accepts the
\* beginTransaction that precedes the validation) and at no point writes an
\* order row, an item row, a stock value or a notification.
C11_InvalidRejected ==
  \A r \in Reqs :
    (pc[r] # "absent" /\ InvalidOrder(req[r])) =>
      /\ (pc[r] = "done" /\ faulted[r] = "") => resp[r] = 400
      /\ resp[r] \in {0, 400, 500}
      /\ orderId[r] = 0
      /\ txOrders[r] = {} /\ txItems[r] = {}
      /\ txStock[r] = << >> /\ txColorStock[r] = << >>
      /\ affected[r] = << >>
      /\ orders = {} /\ orderItems = {}
      /\ stock = stock0 /\ colorStock = colorStock0
      /\ broadcasts = {}

C11_Witness ==
  \E r \in Reqs :
    /\ pc[r] = "done" /\ resp[r] = 400
    /\ req[r].route = "orders" /\ req[r].order_source = ""
    /\ Len(req[r].items) = 2
    /\ req[r].name # "" /\ req[r].phone # "" /\ req[r].address = ""
    /\ orders = {} /\ broadcasts = {}

\* C12: when notifyAdmins throws after the commit, the request is still
\* answered 201 and its order stays stored.
C12_NotifyFailureStill201 ==
  \A r \in Reqs :
    (pc[r] = "done" /\ faulted[r] = "notify") =>
      (resp[r] = 201 /\ OrderRows(r) # {})

\* ------------------------------------------------ claims: status updates
\* completed_date of order i in a table
Cd(table, i) == (CHOOSE o \in table : o.id = i).completed_date
St(table, i) == (CHOOSE o \in table : o.id = i).status

\* the step in which request u runs its UPDATE
StatusWrite(u) == pcS[u] = "update" /\ pcS'[u] = "done" /\ sResp'[u] = 200

\* C13: with status updates applied one after another, completed_date of an
\* order changes only in an update to 'delivered' that found it null, and
\* then becomes the current timestamp: once set it keeps its value, and an
\* update to pending, confirmed or cancelled never sets it.
C13_CompletedDateOnce ==
  [][\A i \in StoredIds :
       Cd(orders', i) # Cd(orders, i) =>
         /\ Cd(orders, i) = 0
         /\ Cd(orders', i) # 0
         /\ \E u \in Updates :
              /\ StatusWrite(u)
              /\ sReq[u].id = i
              /\ sReq[u].status = "delivered"
              /\ St(orders', i) = "delivered"]_vars

C13_Witness ==
  \E u, v \in Updates :
    /\ u < v
    /\ pcS[u] = "done" /\ sResp[u] = 200
    /\ pcS[v] = "done" /\ sResp[v] = 200
    /\ sReq[u] = [id |-> 1, status |-> "delivered"]
    /\ sReq[v] = [id |-> 1, status |-> "delivered"]
    /\ sRead[u] = 0 /\ sRead[v] = sDate[u]
    /\ Cd(orders, 1) = sDate[u]
    /\ Stamp(now) # sDate[u]

\* C14: with status updates in flight together, a completed_date that is
\* set is never replaced by another timestamp nor reset to null.
C14_SetExactlyOnce ==
  [][\A i \in StoredIds :
       Cd(orders, i) # 0 => Cd(orders', i) = Cd(orders, i)]_vars

\* the steps of request u
StatusStep(u) == pcS'[u] # pcS[u]

\* C15: a status outside {pending, confirmed, delivered, cancelled} is
\* answered 400, a valid status for an order that does not exist 404 (when
\* the SELECT itself does not fail), and no step of such a request changes
\* the table orders.
C15_Answers ==
  \A u \in Updates :
    pcS[u] = "done" =>
      /\ sReq[u].status \notin {"pending", "confirmed", "delivered", "cancelled"}
           => sResp[u] = 400
      /\ (/\ sReq[u].status \in {"pending", "confirmed", "delivered", "cancelled"}
          /\ sReq[u].id \notin StoredIds) => sResp[u] \in {404, 500}

C15_InvalidOrMissing ==
  /\ []C15_Answers
  /\ [][\A u \in Updates :
          (/\ StatusStep(u)
           /\ \/ sReq'[u].status \notin {"pending", "confirmed", "delivered", "cancelled"}
              \/ sReq'[u].id \notin StoredIds) => orders' = orders]_vars

C15_Witness ==
  \E u, v \in Updates :
    /\ pcS[u] = "done" /\ sReq[u] = [id |-> 1, status |-> "shipped"]
    /\ sResp[u] = 400
    /\ pcS[v] = "done" /\ sReq[v] = [id |-> 3, status |-> "delivered"]
    /\ sResp[v] = 404
    /\ orders = {StoredOrder(i) : i \in StoredIds}

\* ----------------------------------------------------- claims: exports
\* the orders meeting every filter the request provides
Matching ==
  {o \in orders :
     /\ xReq.orderId # 0 => o.id = xReq.orderId
     /\ xReq.status \notin {"", "all"} => o.status = xReq.status
     /\ xReq.startDate # 0 => o.order_date >= xReq.startDate * 86400
     /\ xReq.endDate # 0 => o.order_date <= xReq.endDate * 86400 + 86399}

\* C16: in both export routes the query returns exactly the orders that
\* satisfy all provided filters together (id = orderId, status = status
\* unless absent or 'all', order_date >= startDate 00:00:00, order_date <=
\* endDate 23:59:59); status=confirmed with orderId=X returns order X only
\* when its status is confirmed, and nothing otherwise.
C16_FiltersAnd ==
  xPc = "render" =>
    /\ xSel = {o.id : o \in Matching}
    /\ (xReq.status = "confirmed" /\ xReq.orderId # 0) =>
         xSel = (IF \E o \in orders : o.id = xReq.orderId /\ o.status = "confirmed"
                    /\ (xReq.startDate # 0 => o.order_date >= xReq.startDate * 86400)
                    /\ (xReq.endDate # 0 => o.order_date <= xReq.endDate * 86400 + 86399)
                 THEN {xReq.orderId} ELSE {})

C16_Witness ==
  /\ xPc = "render"
  /\ xReq.orderId = 1 /\ xReq.status = "confirmed"
  /\ xReq.startDate = 1 /\ xReq.endDate = 1
  /\ St(orders, 1) = "confirmed" /\ St(orders, 2) = "confirmed"
  /\ OrderById(1).order_date = DateTime(1, EndOfDay)
  /\ OrderById(2).order_date = DateTime(1, 43200)
  /\ xSel = {1}

OtherMode(mode) == IF mode = "prepare" THEN "export" ELSE "prepare"

\* C17: the document of a request answered 200 is the one the other export
\* mode renders for the same orders, filters and format: same orders, same
\* status label and same grand total for each order.
C17_ModesAgree ==
  (xPc = "done" /\ xResp = 200) =>
    xDoc = Document(OtherMode(xReq.mode), xReq.format, xSel)

\* the label and the grand total claimed for an order
ClaimedRendering(o) ==
  [label |-> CASE o.status = "confirmed" -> "Confirmee"
               [] o.status = "delivered" -> "Livree"
               [] o.status = "cancelled" -> "Annulee"
               [] OTHER -> "En attente",
   total |-> SumItems(ItemsOf(o.id))]

\* C18: a synchronous export whose queries succeeded is answered 200 and, in
\* each of the three formats, shows for every exported order the grand total
\* (sum of price x quantity) and the label of its status, the pending label
\* standing for every status outside the four known ones.
C18_FormatsAgree ==
  (xPc = "done" /\ xReq.mode = "export" /\ xResp \notin {400, 401} /\ ~xFaulted) =>
    /\ xResp = 200
    /\ xDoc.ok
    /\ \A i \in xSel : xDoc.rows[i] = ClaimedRendering(OrderById(i))

\* C19: GET /orders/export is answered 401 exactly when the request carries
\* a valid credential neither in the authorization header nor in the token
\* query parameter.
C19_HeaderOrQuery ==
  (xPc = "done" /\ xReq.mode = "export") =>
    (xResp = 401 <=> (xReq.hdr # "good" /\ xReq.qtok # "good"))

\* ------------------------------------------------ claims: product update
ListedIds == {pReq.colors[k].id : k \in 1..Len(pReq.colors)}
OldColors == {c \in productColors0 : c.product_id = pReq.productId}
NewColors == {c \in productColors : c.product_id = pReq.productId
                                     /\ c.id \notin {o.id : o \in productColors0}}

\* C20: after a product update answered 200 that supplied a color list, the
\* product's colors are the old colors whose id is in the list, carrying the
\* fields of an entry with that id, plus one new color per entry that is
\* flagged new or has a temporary or absent id; every old color whose id is
\* not in the list is gone, and the colors of other products are untouched.
C20_Reconciled ==
  (pPc = "done" /\ pResp = 200 /\ pReq.hasColors) =>
    /\ \A o \in OldColors :
         IF o.id \in ListedIds
         THEN \E c \in productColors :
                /\ c.id = o.id /\ c.product_id = o.product_id
                /\ \E k \in 1..Len(pReq.colors) :
                     pReq.colors[k].id = o.id /\ c.stock = pReq.colors[k].stock
         ELSE \A c \in productColors : c.id # o.id
    /\ Cardinality(NewColors) =
         Cardinality({k \in 1..Len(pReq.colors) :
                        \/ pReq.colors[k].isNew
                        \/ pReq.colors[k].id = 0
                        \/ pReq.colors[k].id \in TempIds})
    /\ \A c \in productColors0 : c.product_id # pReq.productId => c \in productColors

\* ------------------------------------------------ claims: connections
\* C21: in order creation and in product save the connection is held from
\* getConnection to the end of the request and released in the step that
\* ends it, on every exit path, once: no connection stays leased after its
\* request has ended and none is released before or twice.
C21_Leases ==
  /\ \A r \in Reqs : leased[r] <=> pc[r] \notin {"absent", "done"}
  /\ pLeased <=> pPc \notin {"idle", "done"}

C21_ReleasedOnce ==
  /\ []C21_Leases
  /\ [][/\ \A r \in Reqs :
            leased'[r] # leased[r] =>
              (leased[r] /\ pc[r] # "done" /\ pc'[r] = "done")
        /\ pLeased' # pLeased => (pLeased /\ pPc # "done" /\ pPc' = "done")]_vars

C21_Witness ==
  /\ pc[1] = "done" /\ resp[1] = 0 /\ faulted[1] = "insertItem" /\ ~leased[1]
  /\ pPc = "done" /\ pResp = 404 /\ ~pLeased

\* ------------------------------------------------ claims: notifications
\* C22: a call of notifyAdmins emits the notification to exactly the
\* sockets in the registry at that moment; no other step delivers anything,
\* so a socket that never registered or has disconnected receives nothing
\* and a socket that registers later receives no earlier notification.
C22_RegistryOnly ==
  /\ [](\A s \in adminSockets : sockState[s] = "connected")
  /\ [][IF nNotif' # nNotif
        THEN \A s \in Sockets :
               inbox'[s] = (IF s \in adminSockets THEN inbox[s] \cup {nNotif'}
                            ELSE inbox[s])
        ELSE inbox' = inbox]_vars

C22_Witness ==
  /\ nNotif = 2
  /\ inbox[1] = {1} /\ sockState[1] = "closed"
  /\ inbox[2] = {2} /\ 2 \in adminSockets

\* C28: a socket is in the registry, and receives notifications, only after
\* it has sent a valid admin token with 'admin:authenticate'.
C28_VerifiedOnly ==
  \A s \in Sockets :
    (s \in adminSockets \/ inbox[s] # {}) => sentValid[s]

\* C23: an order notification is broadcast only by the step that follows
\* the commit of that order, for an order stored in the table, and once per
\* order: never for a request that was rejected or whose transaction was
\* rolled back.
C23_Committed ==
  /\ \A id \in broadcasts : \E o \in orders : o.id = id
  /\ \A r \in Reqs :
       (resp[r] = 400 \/ faulted[r] \in TxnSteps \cup {"begin"}) =>
         orderId[r] \notin broadcasts

C23_AfterCommit ==
  /\ []C23_Committed
  /\ [][broadcasts' # broadcasts =>
          \E r \in Reqs :
            /\ pc[r] = "select" /\ pc'[r] # "select"
            /\ orderId[r] \notin broadcasts
            /\ broadcasts' = broadcasts \cup {orderId[r]}
            /\ \E o \in orders : o.id = orderId[r]]_vars

C23_Witness ==
  \E r \in Reqs :
    /\ Created(r) /\ broadcasts = {orderId[r]}
    /\ req[r].route = "whatsapp"
    /\ OrderRows(r) # {}

\* C24: a download token is registered only by a request whose export file
\* is already completely written, and a request answered 500 (query,
\* rendering or write failure) has registered no token.
C24_NoTokenOn500 ==
  \A e \in Exports :
    eResp[e] = 500 =>
      /\ eToken[e] = 0
      /\ \A t \in DOMAIN downloadTokens : downloadTokens[t].filename # e

C24_TokenAfterFile ==
  /\ []C24_NoTokenOn500
  /\ [][\A t \in DOMAIN downloadTokens' \ DOMAIN downloadTokens :
          LET e == downloadTokens'[t].filename
          IN /\ e \in tempFiles
             /\ pcE[e] = "written"
             /\ eResp'[e] = 200]_vars

C24_Witness ==
  \E e \in Exports :
    /\ pcE[e] = "done"
    /\ eResp[e] = 200
    /\ eToken[e] \in DOMAIN downloadTokens
    /\ downloadTokens[eToken[e]].filename = e
    /\ e \in tempFiles

\* C25: an order-creation request answered with an error (400 or 500) has
\* left no Order row and no OrderItem row of its own; rows of a request
\* persist only when it was answered 201.
C25_ErrorLeavesNoRows ==
  \A r \in Reqs :
    pc[r] = "done" =>
      /\ resp[r] \in {400, 500} => (OrderRows(r) = {} /\ ItemRows(r) = {})
      /\ (OrderRows(r) # {} \/ ItemRows(r) # {}) => resp[r] = 201

\* C26: when order creation or product save has released its connection,
\* the transaction begun on that connection has been ended by a commit or a
\* rollback, the 400 and 404 early returns included.
C26_ReleasedWithoutTxn ==
  /\ \A r \in Reqs : (pc[r] = "done" /\ ~leased[r]) => ~txOpen[r]
  /\ (pPc = "done" /\ ~pLeased) => ~pTxOpen

\* C27: whatever the item quantities (zero and negative ones included),
\* creating orders never raises the stock of a product or of a color above
\* its value before the requests, and never makes one negative.
C27_StockNeverRises ==
  /\ \A p \in Products : stock[p] >= 0 /\ stock[p] <= stock0[p]
  /\ \A c \in Colors : colorStock[c] >= 0 /\ colorStock[c] <= colorStock0[c]

\* C29: every token of the download registry is eventually removed and
\* every temporary export file is eventually deleted, whether or not a
\* download is ever made.
TokenIds == 1..MaxExports

C29_EventuallyCleaned ==
  /\ \A t \in TokenIds :
       (t \in DOMAIN downloadTokens) ~> (t \notin DOMAIN downloadTokens)
  /\ \A e \in Exports : (e \in tempFiles) ~> (e \notin tempFiles)

\* C30: when a banner create or update request has responded, whatever the
\* outcome (201, 200, 400, 404, 500), the temporary file stored for it no
\* longer exists.
C30_TempFileGone ==
  \A r \in BannerReqs : (bPc[r] = "done" /\ bResp[r] # 0) => ~bFile[r]

====
